---- MODULE Spec2Model ----
(***************************************************************************)
(* Model of the Flask file-upload service in src/app.py.                   *)
(*                                                                         *)
(* Strings are sequences of one-character strings, so that strip, rsplit,  *)
(* splitext, secure_filename, os.path.join and the '..' substring test are *)
(* computed character by character as the code computes them.  The         *)
(* filesystem is a set of directories and a map from files to contents,    *)
(* both keyed by absolute paths (sequences of path components), and path   *)
(* strings are resolved component by component as the kernel does.         *)
(***************************************************************************)
EXTENDS Integers, Sequences, FiniteSets, TLC

VARIABLES
    dirs,    \* the directories that exist (absolute paths)
    files,   \* file (absolute path) -> content
    clock,   \* datetime.now(), in seconds
    nreq,    \* number of requests handled so far
    last,    \* the last request handled and its response
    pc,      \* concurrent uploads: position of each worker thread
    job      \* concurrent uploads: locals of each worker thread

vars == <<dirs, files, clock, nreq, last, pc, job>>

-----------------------------------------------------------------------------
(* Bounds *)

MaxRequests == 2   \* requests of any kind in a run of Spec
MaxUploads == 3    \* uploads in a run of UploadSpec
MaxClock == 1      \* seconds that pass

-----------------------------------------------------------------------------
(* Characters and strings *)

LowerAlpha ==
    <<"a","b","c","d","e","f","g","h","i","j","k","l","m",
      "n","o","p","q","r","s","t","u","v","w","x","y","z">>

UpperAlpha ==
    <<"A","B","C","D","E","F","G","H","I","J","K","L","M",
      "N","O","P","Q","R","S","T","U","V","W","X","Y","Z">>

Digits == <<"0","1","2","3","4","5","6","7","8","9">>

Range(s) == {s[i] : i \in DOMAIN s}

Whitespace == {" "}

\* _filename_ascii_strip_re = [^A-Za-z0-9_.-]
SafeChars == Range(LowerAlpha) \cup Range(UpperAlpha) \cup Range(Digits) \cup {"_", ".", "-"}

\* str.lower(), one character
LowerChar(c) ==
    IF \E i \in DOMAIN UpperAlpha : UpperAlpha[i] = c
    THEN LowerAlpha[CHOOSE i \in DOMAIN UpperAlpha : UpperAlpha[i] = c]
    ELSE c

lower(s) == [i \in DOMAIN s |-> LowerChar(s[i])]

RECURSIVE lstrip(_, _)
lstrip(s, chars) ==
    IF s # <<>> /\ Head(s) \in chars THEN lstrip(Tail(s), chars) ELSE s

RECURSIVE rstrip(_, _)
rstrip(s, chars) ==
    IF s # <<>> /\ s[Len(s)] \in chars
    THEN rstrip(SubSeq(s, 1, Len(s) - 1), chars)
    ELSE s

\* str.strip(chars)
strip(s, chars) == rstrip(lstrip(s, chars), chars)

\* sub in s
Contains(s, sub) ==
    \E i \in 1..(Len(s) - Len(sub) + 1) : SubSeq(s, i, i + Len(sub) - 1) = sub

\* s.startswith(pre)
StartsWith(s, pre) ==
    Len(s) >= Len(pre) /\ SubSeq(s, 1, Len(pre)) = pre

\* s.rfind(c) + 1: the last position of c in s, 0 when absent
rfind(s, c) ==
    IF \E i \in DOMAIN s : s[i] = c
    THEN CHOOSE i \in DOMAIN s : s[i] = c /\ \A j \in DOMAIN s : s[j] = c => j <= i
    ELSE 0

\* s.rsplit('.', 1)[1], for s containing a '.'
ExtOf(s) == SubSeq(s, rfind(s, ".") + 1, Len(s))

\* s.split(sep): the components between separators, empty ones kept
RECURSIVE Split(_, _)
Split(s, sep) ==
    IF \A i \in DOMAIN s : s[i] # sep
    THEN <<s>>
    ELSE LET k == CHOOSE i \in DOMAIN s : s[i] = sep /\ \A j \in 1..(i - 1) : s[j] # sep
         IN  <<SubSeq(s, 1, k - 1)>> \o Split(SubSeq(s, k + 1, Len(s)), sep)

\* s.replace(old, new), one character for one character
Replace(s, old, new) == [i \in DOMAIN s |-> IF s[i] = old THEN new ELSE s[i]]

\* "_".join(t.split()) for t without leading or trailing whitespace
RECURSIVE Collapse(_)
Collapse(t) ==
    IF t = <<>> THEN <<>>
    ELSE IF Head(t) \in Whitespace
         THEN IF Len(t) > 1 /\ t[2] \in Whitespace
              THEN Collapse(Tail(t))
              ELSE <<"_">> \o Collapse(Tail(t))
         ELSE <<Head(t)>> \o Collapse(Tail(t))

JoinWords(s) == Collapse(strip(s, Whitespace))

\* re.sub of every character outside the safe set
RECURSIVE KeepSafe(_)
KeepSafe(s) ==
    IF s = <<>> THEN <<>>
    ELSE IF Head(s) \in SafeChars
         THEN <<Head(s)>> \o KeepSafe(Tail(s))
         ELSE KeepSafe(Tail(s))

\* werkzeug.utils.secure_filename on a POSIX host
secure_filename(s) ==
    strip(KeepSafe(JoinWords(Replace(s, "/", " "))), {".", "_"})

\* os.path.splitext of a name without separators: leading dots are not an
\* extension
splitext(p) ==
    LET dotIndex == rfind(p, ".")
    IN  IF dotIndex > 0 /\ \E i \in 1..(dotIndex - 1) : p[i] # "."
        THEN [name |-> SubSeq(p, 1, dotIndex - 1), ext |-> SubSeq(p, dotIndex, Len(p))]
        ELSE [name |-> p, ext |-> <<>>]

\* os.path.join(a, b) on POSIX
join(a, b) ==
    IF StartsWith(b, <<"/">>) THEN b
    ELSE IF a = <<>> \/ a[Len(a)] = "/" THEN a \o b
    ELSE a \o <<"/">> \o b

\* datetime.now().strftime('%Y%m%d_%H%M%S'): second precision
strftime(t) ==
    <<"2","0","2","5","0","1","0","1","_","0","0","0","0","0">> \o <<Digits[(t % 10) + 1]>>

-----------------------------------------------------------------------------
(* Configuration *)

UPLOAD_FOLDER == <<"/","a","p","p","/","f","i","l","e","s">>

ALLOWED_EXTENSIONS ==
    { <<"t","x","t">>, <<"p","d","f">>, <<"p","n","g">>, <<"j","p","g">>,
      <<"j","p","e","g">>, <<"g","i","f">>, <<"d","o","c">>, <<"d","o","c","x">>,
      <<"x","l","s">>, <<"x","l","s","x">>, <<"z","i","p">>, <<"r","a","r">> }

\* the storage root as an absolute path
RootPath == << <<"a","p","p">>, <<"f","i","l","e","s">> >>

-----------------------------------------------------------------------------
(* The filesystem: path strings are resolved component by component *)

Parent(p) == IF p = <<>> THEN <<>> ELSE SubSeq(p, 1, Len(p) - 1)

\* one component of a path, looked up in directory cur
Step(cur, c) ==
    IF c = <<>> \/ c = <<".">> THEN cur
    ELSE IF c = <<".", ".">> THEN Parent(cur)
    ELSE Append(cur, c)

\* Path resolution: every component is looked up in an existing directory
\* (ENOENT / ENOTDIR otherwise).  at is the location reached: a directory, a
\* file, or a name that does not exist in an existing directory.
RECURSIVE Lookup(_, _, _)
Lookup(D, cur, comps) ==
    IF comps = <<>> THEN [ok |-> TRUE, at |-> cur]
    ELSE IF cur \notin D THEN [ok |-> FALSE, at |-> cur]
    ELSE Lookup(D, Step(cur, Head(comps)), Tail(comps))

Resolve(D, path) == Lookup(D, <<>>, Split(path, "/"))

\* os.path.exists(path)
exists(D, F, path) ==
    LET r == Resolve(D, path)
    IN  r.ok /\ (r.at \in D \/ r.at \in DOMAIN F)

\* os.path.isdir(path)
isdir(D, path) ==
    LET r == Resolve(D, path)
    IN  r.ok /\ r.at \in D

\* os.makedirs(path, exist_ok=True): each prefix of the path is created in
\* turn when missing; it raises when a prefix is an existing file, and keeps
\* the directories created before that.
RECURSIVE MakeDirs(_, _, _, _)
MakeDirs(D, F, cur, comps) ==
    IF comps = <<>> THEN [ok |-> TRUE, dirs |-> D, at |-> cur]
    ELSE LET next == Step(cur, Head(comps))
         IN  IF next \in DOMAIN F
             THEN [ok |-> FALSE, dirs |-> D, at |-> next]
             ELSE MakeDirs(D \cup {next}, F, next, Tail(comps))

makedirs(D, F, path) == MakeDirs(D, F, <<>>, Split(path, "/"))

\* a write that creates the file exclusively (open(path, 'xb'))
save_exclusive(D, F, path, content) ==
    LET r == Resolve(D, path)
    IN  IF r.ok /\ r.at \notin D /\ r.at \notin DOMAIN F
        THEN [ok |-> TRUE, at |-> r.at,
              files |-> [p \in DOMAIN F \cup {r.at} |-> IF p = r.at THEN content ELSE F[p]]]
        ELSE [ok |-> FALSE, at |-> r.at, files |-> F]

\* file.save(path): open(path, 'wb') and write; the open truncates a file
\* that is already there, and raises on a directory or a missing parent
save(D, F, path, content) ==
    LET r == Resolve(D, path)
    IN  IF r.ok /\ r.at \notin D
        THEN [ok |-> TRUE, at |-> r.at,
              files |-> [p \in DOMAIN F \cup {r.at} |-> IF p = r.at THEN content ELSE F[p]]]
        ELSE [ok |-> FALSE, at |-> r.at, files |-> F]

\* os.listdir(path) with os.path.isdir of each entry
listdir(D, F, at) ==
    { [name |-> p[Len(p)], type |-> "directory"] : p \in {q \in D : q # <<>> /\ Parent(q) = at} }
    \cup
    { [name |-> p[Len(p)], type |-> "file"] : p \in {q \in DOMAIN F : Parent(q) = at} }

-----------------------------------------------------------------------------
(* Helpers of the request handlers *)

\* an extension check that only looks for a dot
allowed_file_any_extension(filename) == Contains(filename, <<".">>)

\* allowed_file(filename)
allowed_file(filename) ==
    /\ Contains(filename, <<".">>)
    /\ lower(ExtOf(filename)) \in ALLOWED_EXTENSIONS

\* create_directory(path)
create_directory(D, F, path) ==
    LET full_path == join(UPLOAD_FOLDER, strip(path, {"/"}))
        mk == makedirs(D, F, full_path)
    IN  [ok |-> mk.ok, dirs |-> mk.dirs, at |-> mk.at, full_path |-> full_path]

-----------------------------------------------------------------------------
(* POST /upload *)

NoName == <<>>

Reply(code, status, D, F, filename, path, body, touched) ==
    [code |-> code, status |-> status, dirs |-> D, files |-> F,
     filename |-> filename, path |-> path, body |-> body, touched |-> touched,
     collided |-> FALSE]

\* a custom name put in front of the whole original name
ResolveFilename_whole_original(original, custom_filename) ==
    IF custom_filename # <<>>
    THEN secure_filename(custom_filename) \o <<".">> \o secure_filename(original)
    ELSE secure_filename(original)

\* the name the upload is stored under, before the collision check
ResolveFilename(original, custom_filename) ==
    IF custom_filename # <<>>
    THEN secure_filename(custom_filename) \o <<".">> \o lower(ExtOf(original))
    ELSE secure_filename(original)

\* request validation, name resolution and directory creation
upload_begin(D, F, req) ==
    IF ~req.hasFile
    THEN [done |-> TRUE, code |-> "NO_FILE", status |-> 400, dirs |-> D, touched |-> {}]
    ELSE IF req.filename = <<>>
    THEN [done |-> TRUE, code |-> "EMPTY_FILENAME", status |-> 400, dirs |-> D, touched |-> {}]
    ELSE IF ~allowed_file(req.filename)
    THEN [done |-> TRUE, code |-> "INVALID_FILE_TYPE", status |-> 400, dirs |-> D, touched |-> {}]
    ELSE
      LET upload_path == strip(req.path, {"/"})
          custom_filename == strip(req.custom, Whitespace)
          filename == ResolveFilename(req.filename, custom_filename)
          mk == IF upload_path # <<>>
                THEN create_directory(D, F, upload_path)
                ELSE [ok |-> TRUE, dirs |-> D, at |-> RootPath, full_path |-> UPLOAD_FOLDER]
          touched == IF upload_path # <<>> THEN (mk.dirs \ D) \cup {mk.at} ELSE {}
      IN  IF ~mk.ok
          THEN [done |-> TRUE, code |-> "UPLOAD_ERROR", status |-> 500,
                dirs |-> mk.dirs, touched |-> touched]
          ELSE [done |-> FALSE, code |-> "", status |-> 0, dirs |-> mk.dirs,
                touched |-> touched, upload_path |-> upload_path,
                filename |-> filename, save_directory |-> mk.full_path]

\* the collision check: an existing target gets a timestamp suffix
upload_place(D, F, now, save_directory, filename) ==
    LET file_path == join(save_directory, filename)
    IN  IF exists(D, F, file_path)
        THEN LET sp == splitext(filename)
                 stamped == sp.name \o <<"_">> \o strftime(now) \o sp.ext
             IN  [filename |-> stamped, file_path |-> join(save_directory, stamped),
                  collided |-> TRUE, touched |-> {Resolve(D, file_path).at}]
        ELSE [filename |-> filename, file_path |-> file_path,
              collided |-> FALSE, touched |-> {Resolve(D, file_path).at}]

\* the write and the response
upload_store(D, F, upload_path, filename, file_path, content) ==
    LET sv == save(D, F, file_path, content)
        relative_path == IF upload_path # <<>>
                         THEN upload_path \o <<"/">> \o filename
                         ELSE filename
    IN  IF sv.ok
        THEN Reply("OK", 200, D, sv.files, filename, relative_path, content, {sv.at})
        ELSE Reply("UPLOAD_ERROR", 500, D, F, NoName, NoName, 0, {sv.at})

\* the whole handler, one request at a time
upload_file(D, F, now, req) ==
    LET b == upload_begin(D, F, req)
    IN  IF b.done
        THEN Reply(b.code, b.status, b.dirs, F, NoName, NoName, 0, b.touched)
        ELSE LET pl == upload_place(b.dirs, F, now, b.save_directory, b.filename)
                 st == upload_store(b.dirs, F, b.upload_path, pl.filename,
                                    pl.file_path, req.content)
             IN  [st EXCEPT !.touched = b.touched \cup pl.touched \cup st.touched,
                            !.collided = pl.collided]

-----------------------------------------------------------------------------
(* GET /files/<path>, POST /create-folder, GET /list, GET /health *)

\* a traversal check that forgets the leading slash
InvalidPath_dots_only(filename) == Contains(filename, <<".", ".">>)

\* the traversal check of the retrieval endpoint
InvalidPath(filename) ==
    Contains(filename, <<".", ".">>) \/ StartsWith(filename, <<"/">>)

download_file(D, F, filename) ==
    IF InvalidPath(filename)
    THEN Reply("INVALID_PATH", 400, D, F, NoName, NoName, 0, {})
    ELSE LET file_path == join(UPLOAD_FOLDER, filename)
             r == Resolve(D, file_path)
         IN  IF ~exists(D, F, file_path)
             THEN Reply("FILE_NOT_FOUND", 404, D, F, NoName, NoName, 0, {r.at})
             ELSE IF r.at \in DOMAIN F
             THEN Reply("OK", 200, D, F, NoName, filename, F[r.at], {r.at})
             ELSE Reply("ACCESS_ERROR", 500, D, F, NoName, NoName, 0, {r.at})

create_folder(D, F, req) ==
    IF ~req.hasPath
    THEN Reply("MISSING_PATH", 400, D, F, NoName, NoName, 0, {})
    ELSE LET folder_path == strip(req.path, {"/"})
         IN  IF folder_path = <<>>
             THEN Reply("EMPTY_PATH", 400, D, F, NoName, NoName, 0, {})
             ELSE LET mk == create_directory(D, F, folder_path)
                      touched == (mk.dirs \ D) \cup {mk.at}
                  IN  IF mk.ok
                      THEN Reply("OK", 200, mk.dirs, F, NoName, folder_path, 0, touched)
                      ELSE Reply("CREATE_FOLDER_ERROR", 500, mk.dirs, F, NoName, NoName,
                                 0, touched)

list_files(D, F, folder_path) ==
    LET target_path == join(UPLOAD_FOLDER, strip(folder_path, {"/"}))
        r == Resolve(D, target_path)
    IN  IF ~exists(D, F, target_path)
        THEN Reply("PATH_NOT_FOUND", 404, D, F, NoName, NoName, 0, {r.at})
        ELSE IF r.at \in DOMAIN F
        THEN Reply("LIST_ERROR", 500, D, F, NoName, NoName, 0, {r.at})
        ELSE Reply("OK", 200, D, F, NoName, folder_path, listdir(D, F, r.at), {r.at})

health_check(D, F) ==
    Reply("OK", 200, D, F, NoName, NoName, "healthy", {})

-----------------------------------------------------------------------------
(* Request inputs *)

N_empty    == <<>>
N_x_pdf    == <<"x",".","p","d","f">>
N_x_PDF    == <<"x",".","P","D","F">>
N_dot_pdf  == <<".","p","d","f">>
N_a__b_txt == <<"a",".",".","b",".","t","x","t">>
N_a_exe    == <<"a",".","e","x","e">>
N_a        == <<"a">>
N_report   == <<"r","e","p","o","r","t">>
N_unsafe   == <<"/","!">>
N_blank    == <<" ">>
P_d        == <<"/","d","/">>
P_up       == <<".",".">>

\* file.filename of the multipart part: names the service accepts ...
GoodNames == {N_x_pdf, N_x_PDF, N_dot_pdf, N_a__b_txt}

\* ... and names it rejects
BadNames == {N_empty, N_a_exe, N_a}

\* the form field 'filename'
CustomNames == {N_empty, N_report, N_unsafe, N_blank}

\* the 'path' of an upload, a folder creation or a listing
Paths == {N_empty, P_d, P_up}

\* the form of an upload: the file part (or none) and the two form fields
UploadForms ==
    [hasFile : {TRUE}, filename : GoodNames, custom : CustomNames, path : Paths]
    \cup
    [hasFile : {TRUE}, filename : BadNames, custom : {N_empty}, path : Paths]
    \cup
    [hasFile : {FALSE}, filename : {N_empty}, custom : {N_empty}, path : {N_empty}]

\* an upload request: a form and the bytes of the file.  Every upload carries
\* bytes of its own (tag), so that one upload's content is never mistaken for
\* another's.
UploadRequest(form, tag) ==
    [hasFile |-> form.hasFile, filename |-> form.filename, custom |-> form.custom,
     path |-> form.path, content |-> IF form.hasFile THEN tag ELSE 0]

FolderRequests ==
    [hasPath : {TRUE}, path : Paths] \cup [hasPath : {FALSE}, path : {N_empty}]

\* the <path:filename> of a retrieval: fixed probes and the path the last
\* response returned
DownloadPaths ==
    { N_x_pdf, <<"/">> \o N_x_pdf, <<".",".","/">> \o N_x_pdf, <<"d">> }
    \cup (IF last.path # NoName THEN {last.path} ELSE {})

Threads == {1, 2}

-----------------------------------------------------------------------------
(* State machine: one request at a time *)

NoRequest == [none |-> TRUE]

NoJob == [req |-> NoRequest]

\* os.makedirs(UPLOAD_FOLDER, exist_ok=True) at start-up
InitDirs == makedirs({<<>>}, <<>>, UPLOAD_FOLDER).dirs

Init ==
    /\ dirs = InitDirs
    /\ files = <<>>
    /\ clock = 0
    /\ nreq = 0
    /\ last = [op |-> "none", req |-> NoRequest, code |-> "", status |-> 0,
               filename |-> NoName, path |-> NoName, body |-> 0, touched |-> {},
               collided |-> FALSE]
    /\ pc = [t \in Threads |-> "idle"]
    /\ job = [t \in Threads |-> NoJob]

\* the request is answered with r
Answer(op, req, r) ==
    /\ dirs' = r.dirs
    /\ files' = r.files
    /\ nreq' = nreq + 1
    /\ last' = [op |-> op, req |-> req, code |-> r.code, status |-> r.status,
                filename |-> r.filename, path |-> r.path, body |-> r.body,
                touched |-> r.touched, collided |-> r.collided]
    /\ UNCHANGED <<clock, pc, job>>

Upload ==
    /\ nreq < MaxRequests
    /\ \E form \in UploadForms :
         LET req == UploadRequest(form, nreq + 1)
         IN  Answer("upload", req, upload_file(dirs, files, clock, req))

Download ==
    /\ nreq < MaxRequests
    /\ \E filename \in DownloadPaths :
         Answer("download", filename, download_file(dirs, files, filename))

CreateFolder ==
    /\ nreq < MaxRequests
    /\ \E req \in FolderRequests :
         Answer("create-folder", req, create_folder(dirs, files, req))

List ==
    /\ nreq < MaxRequests
    /\ \E folder_path \in Paths :
         Answer("list", folder_path, list_files(dirs, files, folder_path))

Health ==
    /\ nreq < MaxRequests
    /\ Answer("health", NoRequest, health_check(dirs, files))

\* a second passes
Tick ==
    /\ clock < MaxClock
    /\ clock' = clock + 1
    /\ UNCHANGED <<dirs, files, nreq, last, pc, job>>

Next == Upload \/ Download \/ CreateFolder \/ List \/ Health \/ Tick

Spec == Init /\ [][Next]_vars

-----------------------------------------------------------------------------
(* Runs of uploads only, one at a time *)

RepeatUpload ==
    /\ nreq < MaxUploads
    /\ \E form \in UploadForms :
         LET req == UploadRequest(form, nreq + 1)
         IN  Answer("upload", req, upload_file(dirs, files, clock, req))

UploadNext == RepeatUpload \/ Tick

UploadSpec == Init /\ [][UploadNext]_vars

-----------------------------------------------------------------------------
(* Two uploads handled concurrently by two worker threads.  The handler   *)
(* takes no lock: between its filesystem calls the other thread may run.  *)

\* lines 64-105: validation, name resolution, directory creation
Begin(t) ==
    /\ pc[t] = "idle"
    /\ \E form \in UploadForms :
         LET req == UploadRequest(form, t)
             b == upload_begin(dirs, files, req)
         IN  /\ dirs' = b.dirs
             /\ pc' = [pc EXCEPT ![t] = IF b.done THEN "done" ELSE "place"]
             /\ job' = [job EXCEPT ![t] =
                          [req |-> req, b |-> b, file_path |-> NoName,
                           filename |-> NoName, code |-> b.code, path |-> NoName]]
    /\ UNCHANGED <<files, clock, nreq, last>>

\* lines 107-113: the existence check and the timestamped name
Place(t) ==
    /\ pc[t] = "place"
    /\ LET pl == upload_place(dirs, files, clock, job[t].b.save_directory,
                              job[t].b.filename)
       IN  job' = [job EXCEPT ![t].file_path = pl.file_path,
                              ![t].filename = pl.filename]
    /\ pc' = [pc EXCEPT ![t] = "save"]
    /\ UNCHANGED <<dirs, files, clock, nreq, last>>

\* lines 115-136: the write and the response
Save(t) ==
    /\ pc[t] = "save"
    /\ LET st == upload_store(dirs, files, job[t].b.upload_path, job[t].filename,
                              job[t].file_path, job[t].req.content)
       IN  /\ files' = st.files
           /\ job' = [job EXCEPT ![t].code = st.code, ![t].path = st.path]
    /\ pc' = [pc EXCEPT ![t] = "done"]
    /\ UNCHANGED <<dirs, clock, nreq, last>>

RaceNext == (\E t \in Threads : Begin(t) \/ Place(t) \/ Save(t)) \/ Tick

RaceSpec == Init /\ [][RaceNext]_vars

-----------------------------------------------------------------------------
(* Properties *)

UnderRoot(p) ==
    Len(p) >= Len(RootPath) /\ SubSeq(p, 1, Len(RootPath)) = RootPath

UploadHandled == last.op = "upload" /\ last.req.hasFile

UploadStored == last.op = "upload" /\ last.code = "OK"

\* C1: every directory that is created and every file that is written or
\* read lies at or beneath UPLOAD_FOLDER; no request resolves to a location
\* outside the root.
C1_ConfinedToRoot ==
    \A p \in (dirs \ InitDirs) \cup DOMAIN files \cup last.touched : UnderRoot(p)

\* C2: in a sequential run of uploads, once a path holds content no later
\* upload changes the content found at that path.
C2_ImmutableOnceWritten ==
    [][\A p \in DOMAIN files : p \in DOMAIN files' /\ files'[p] = files[p]]_vars

\* C3: uploading the same filename twice to the same path, one upload after
\* the other, yields two distinct stored files, the second with a
\* _YYYYMMDD_HHMMSS suffix between base name and extension, and each of the
\* two returned paths is retrievable and returns the content of its own upload.
C3_TwiceTheSameName ==
    [][ ( /\ UploadStored
          /\ nreq' = nreq + 1
          /\ last'.op = "upload"
          /\ last'.req.filename = last.req.filename
          /\ last'.req.custom = last.req.custom
          /\ last'.req.path = last.req.path )
        => LET first == ResolveFilename(last.req.filename,
                                        strip(last.req.custom, Whitespace))
               sp == splitext(first)
               one == download_file(dirs', files', last.path)
               two == download_file(dirs', files', last'.path)
           IN  /\ last'.code = "OK"
               /\ last'.path # last.path
               /\ last'.filename = sp.name \o <<"_">> \o strftime(clock') \o sp.ext
               /\ one.code = "OK" /\ one.body = last.body
               /\ two.code = "OK" /\ two.body = last'.body
      ]_vars

\* C4 as stated: every uploaded filename whose extension is absent or not in
\* the allowed set is rejected with INVALID_FILE_TYPE (400), before any
\* directory creation or file save.
C4_EveryNameWithoutAllowedExtension ==
    [][ ( /\ nreq' = nreq + 1
          /\ last'.op = "upload"
          /\ last'.req.hasFile
          /\ last'.req.filename \in {N_empty, N_a, N_a_exe} )
        => /\ last'.code = "INVALID_FILE_TYPE" /\ last'.status = 400
           /\ dirs' = dirs /\ files' = files /\ last'.touched = {}
      ]_vars

\* C4 as amended: every non-empty uploaded filename whose extension is absent
\* or not in the allowed set is rejected with INVALID_FILE_TYPE (400), and
\* the filesystem is neither changed nor accessed by the request.
C4_NonEmptyNameWithoutAllowedExtension ==
    [][ ( /\ nreq' = nreq + 1
          /\ last'.op = "upload"
          /\ last'.req.hasFile
          /\ last'.req.filename \in {N_a, N_a_exe} )
        => /\ last'.code = "INVALID_FILE_TYPE" /\ last'.status = 400
           /\ dirs' = dirs /\ files' = files /\ last'.touched = {}
      ]_vars

\* an upload of a.exe into /d/ was rejected and d was not created
C4_Witness ==
    /\ UploadHandled
    /\ last.req.filename = N_a_exe /\ last.req.path = P_d
    /\ last.code = "INVALID_FILE_TYPE"
    /\ Append(RootPath, <<"d">>) \notin dirs

\* C5: a retrieval whose path contains '..' or starts with '/' is rejected
\* with INVALID_PATH (400) without any filesystem access.
C5_TraversalRejectedFirst ==
    ( /\ last.op = "download"
      /\ (Contains(last.req, <<".", ".">>) \/ (last.req # <<>> /\ Head(last.req) = "/")) )
    => /\ last.code = "INVALID_PATH" /\ last.status = 400
       /\ last.touched = {}

\* retrievals of /x.pdf and of ../x.pdf were rejected
C5_Witness ==
    /\ last.op = "download"
    /\ last.req \in {<<"/">> \o N_x_pdf, <<".",".","/">> \o N_x_pdf}
    /\ last.code = "INVALID_PATH"

\* C6: an upload whose original name, or whose non-empty custom name,
\* sanitizes to the empty string is rejected with EMPTY_FILENAME and nothing
\* is stored.
C6_EmptySanitizedNameRejected ==
    ( /\ UploadHandled
      /\ \/ secure_filename(last.req.filename) = <<>>
         \/ /\ strip(last.req.custom, Whitespace) # <<>>
            /\ secure_filename(strip(last.req.custom, Whitespace)) = <<>> )
    => last.code = "EMPTY_FILENAME" /\ last.filename = NoName

\* C7: the name a successful upload is stored under has a non-empty base
\* followed by '.' and the original file's extension, which is in the allowed
\* set (compared case-insensitively).
C7_StoredNameHasBaseAndExtension ==
    UploadStored
    => /\ rfind(last.filename, ".") > 1
       /\ lower(ExtOf(last.filename)) \in ALLOWED_EXTENSIONS
       /\ lower(ExtOf(last.filename)) = lower(ExtOf(last.req.filename))

C9_BothWriteTheSamePath ==
    \A s \in Threads : \A t \in Threads :
      ( /\ s # t
        /\ pc[s] = "done" /\ pc[t] = "done"
        /\ job[s].file_path # NoName
        /\ job[s].file_path = job[t].file_path
        /\ ~isdir(dirs, job[s].file_path) )
      => /\ job[s].code = "OK" /\ job[t].code = "OK"
         /\ job[s].path = job[t].path
         /\ LET at == Resolve(dirs, job[s].file_path).at
            IN  at \in DOMAIN files
                /\ files[at] \in {job[s].req.content, job[t].req.content}

\* both uploads reported success for the same path and the content of one of
\* them is nowhere in the store
C9_Witness ==
    \E s \in Threads : \E t \in Threads :
      /\ s # t
      /\ pc[s] = "done" /\ pc[t] = "done"
      /\ job[s].code = "OK" /\ job[t].code = "OK"
      /\ job[s].path = job[t].path
      /\ job[s].file_path = job[t].file_path
      /\ \A p \in DOMAIN files : files[p] # job[s].req.content

\* C10: after a successful upload, and before any other request, a retrieval
\* of the path the upload returned is answered with the bytes uploaded.
C10_RoundTrip ==
    UploadStored
    => LET got == download_file(dirs, files, last.path)
       IN  got.code = "OK" /\ got.body = last.body

====
